---- MODULE Spec2Model ----
(***************************************************************************)
(* pyBulkDOIresolver.py: bulk DOI resolution against the Crossref works    *)
(* endpoint.  The model covers main()'s batch loop, the recursive fetcher  *)
(* get_metadata_in_batch, the progress (checkpoint) file, the atomic CSV   *)
(* writer and the metadata parser, together with process crashes and       *)
(* restarts.  Disk state (the CSV file, its .tmp sibling, .inProgress and  *)
(* malformed_dois.log) survives a crash; everything else is lost.          *)
(***************************************************************************)
EXTENDS Integers, Sequences, FiniteSets, TLC

VARIABLES
    outFile,        \* args.input_file on disk: [exists, rows], rows[1] is the header
    tmpFile,        \* args.input_file + ".tmp" on disk: [exists, rows]
    progressFile,   \* PROGRESS_FILE on disk: [exists, lines]
    malformedLog,   \* MALFORMED_LOG_FILENAME on disk: a sequence of lines
    pc,             \* position of the process in main()
    resume,         \* args.resume, until lines 237-248 have read it (FALSE afterwards)
    batch_size,     \* args.batch_size
    header,         \* main: header
    data_rows,      \* main: data_rows
    dois,           \* main: dois
    start_index,    \* main: start_index
    i,              \* main: loop variable i
    session_processed_count, \* main: session_processed_count
    batch_slice,    \* main: batch_slice
    metadata_items, \* main: metadata_items
    stack,          \* call stack of get_metadata_in_batch, innermost frame last
    wire,           \* the last exchange with the remote service: [req, status]
    slept,          \* duration of the last time.sleep of the fetcher (0: none yet)
    writeError,     \* "CRITICAL ERROR" was printed by write_csv_safely for this batch
    fetchStats,     \* history of the running top-level fetch: [calls, faults, logMark, depth]
    budget          \* environment events left: [faults, writeFails, crashes]; restarts so far

vars == << outFile, tmpFile, progressFile, malformedLog, pc, resume, batch_size,
           header, data_rows, dois, start_index, i, session_processed_count,
           batch_slice, metadata_items, stack, wire, slept, writeError,
           fetchStats, budget >>

diskVars == << outFile, tmpFile, progressFile, malformedLog >>
fetchVars == << stack, wire, slept, fetchStats >>
loopVars == << header, data_rows, dois, start_index, i, session_processed_count,
               batch_slice, metadata_items >>

----------------------------------------------------------------------------
(* Bounds of the model. *)
MaxRows == 3          \* data rows of the input file
MaxBatch == 3         \* largest --batch_size tried
MaxFaults == 3        \* transient / non-retryable responses injected
MaxWriteFails == 1    \* failures of write_csv_safely injected
MaxCrashes == 1       \* process kills injected
MaxList == 5          \* DOIs of a list the fetcher is called with on its own

----------------------------------------------------------------------------
(* Configuration constants of the program. *)
PROGRESS_FILE == ".inProgress"
MALFORMED_LOG_FILENAME == "malformed_dois.log"
input_file == "in.csv"
doi_col_index == 0
output_start_index == 2
output_headers == << "DOI", "Title", "Authors", "Journal", "ISSN", "Volume", "Issue", "Pages" >>
\* a faulty variant: one attempt more
MaxRetriesPlusOne == 3 + 1
MaxRetries == 3
RateLimitSleep == 10
NetworkErrorSleep == 2

None == "None"

Min(a, b) == IF a < b THEN a ELSE b

----------------------------------------------------------------------------
(* The remote registry (the environment of requests.get).  It matches DOIs *)
(* case-insensitively and echoes the DOI in its own spelling.              *)
Dois == { "10.1/Ab", "10.1/x", "10.1/bad" }
\* a second malformed DOI, for the lists the fetcher is called with on its own
FetchDois == Dois \cup { "10.1/b d" }
Malformed(d) == d \in { "10.1/bad", "10.1/b d" }
Known(d) == d = "10.1/Ab"

\* the spelling in which the registry echoes a DOI it knows
Echo(d) == IF d = "10.1/Ab" THEN "10.1/aB" ELSE d

\* str.lower()
Lower(s) == IF s \in { "10.1/Ab", "10.1/aB" } THEN "10.1/ab" ELSE s

RegistryItem(d) ==
    ("container-title" :> << "J" >>) @@
    [ DOI |-> Echo(d),
      title |-> << "T" >>,
      author |-> << [given |-> "G", family |-> "F"], [given |-> "", family |-> ""],
                    [given |-> "", family |-> "H"] >>,
      ISSN |-> << "1", "2" >>,
      volume |-> "7",
      page |-> "1-9" ]

(* The items of a 200 response to a request for the list q. *)
RECURSIVE ResponseItems(_)
ResponseItems(q) ==
    IF q = << >> THEN << >>
    ELSE (IF Known(Head(q)) THEN << RegistryItem(Head(q)) >> ELSE << >>)
         \o ResponseItems(Tail(q))

HasMalformed(q) == \E n \in 1..Len(q) : Malformed(q[n])

----------------------------------------------------------------------------
(* Pure helpers of the program. *)

\* dict.get(key, default)
Get(d, key, default) == IF key \in DOMAIN d THEN d[key] ELSE default

\* sep.join(parts)
RECURSIVE Join(_, _)
Join(parts, sep) ==
    IF parts = << >> THEN ""
    ELSE IF Len(parts) = 1 THEN parts[1]
    ELSE parts[1] \o sep \o Join(Tail(parts), sep)

\* f"{given} {family}".strip()
AuthorName(author) ==
    LET given == Get(author, "given", "")
        family == Get(author, "family", "")
    IN  IF given = "" THEN family
        ELSE IF family = "" THEN given
        ELSE given \o " " \o family

RECURSIVE AuthorNames(_)
AuthorNames(authors) ==
    IF authors = << >> THEN << >>
    ELSE (IF AuthorName(Head(authors)) # "" THEN << AuthorName(Head(authors)) >> ELSE << >>)
         \o AuthorNames(Tail(authors))

parse_metadata(item) ==
    [ DOI |-> Get(item, "DOI", ""),
      Title |-> Join(Get(item, "title", << "" >>), ""),
      Authors |-> Join(AuthorNames(Get(item, "author", << >>)), "; "),
      Journal |-> Join(Get(item, "container-title", << "" >>), ""),
      ISSN |-> Join(Get(item, "ISSN", << >>), ", "),
      Volume |-> Get(item, "volume", ""),
      Issue |-> Get(item, "issue", ""),
      Pages |-> Get(item, "page", "") ]

\* a faulty variant: the list is passed on as it is
KeepAll(ds) == ds

\* [doi for doi in dois if doi]
RECURSIVE Present(_)
Present(ds) ==
    IF ds = << >> THEN << >>
    ELSE (IF Head(ds) # None THEN << Head(ds) >> ELSE << >>) \o Present(Tail(ds))

\* {item.get('DOI', '').lower(): item for item in metadata_items if item}
metadata_map(items) ==
    [ k \in { Lower(Get(items[n], "DOI", "")) : n \in 1..Len(items) } |->
        LET last == CHOOSE n \in 1..Len(items) :
                        /\ Lower(Get(items[n], "DOI", "")) = k
                        /\ \A m \in (n + 1)..Len(items) : Lower(Get(items[m], "DOI", "")) # k
        IN  items[last] ]

\* a faulty variant: an unresolved DOI is written to the DOI cell
OutputValuesWithFallback(doi_or_none, items) ==
    LET map == metadata_map(items)
        empty == [ k \in 1..Len(output_headers) |-> "" ]
    IN  IF doi_or_none # None /\ Lower(doi_or_none) \in DOMAIN map
        THEN LET parsed == parse_metadata(map[Lower(doi_or_none)])
             IN  [ k \in 1..Len(output_headers) |-> parsed[output_headers[k]] ]
        ELSE IF doi_or_none # None THEN [empty EXCEPT ![1] = doi_or_none]
        ELSE empty

\* the cells written for one position of the slice
OutputValues(doi_or_none, items) ==
    LET map == metadata_map(items)
        empty == [ k \in 1..Len(output_headers) |-> "" ]
    IN  IF doi_or_none # None /\ Lower(doi_or_none) \in DOMAIN map
        THEN LET parsed == parse_metadata(map[Lower(doi_or_none)])
                 withDoi == IF parsed.DOI = "" THEN [parsed EXCEPT !.DOI = doi_or_none]
                            ELSE parsed
             IN  [ k \in 1..Len(output_headers) |-> withDoi[output_headers[k]] ]
        ELSE empty

\* pad a row to output_start_index + len(output_headers) cells and set the span
required_row_len == output_start_index + Len(output_headers)

Extend(row) ==
    IF Len(row) < required_row_len
    THEN row \o [ k \in 1..(required_row_len - Len(row)) |-> "" ]
    ELSE row

\* a faulty variant: the row is rebuilt up to the end of the span
SetSpanTruncating(row, values) ==
    [ c \in 1..required_row_len |->
        IF c > output_start_index THEN values[c - output_start_index] ELSE Extend(row)[c] ]

SetSpan(row, values) ==
    [ c \in 1..Len(Extend(row)) |->
        IF c > output_start_index /\ c <= required_row_len
        THEN values[c - output_start_index]
        ELSE Extend(row)[c] ]

\* the DOI screening of one data row
ExtractDoi(row) ==
    IF Len(row) > doi_col_index /\ row[doi_col_index + 1] \in Dois
    THEN row[doi_col_index + 1]
    ELSE None

\* int(s) of load_progress: [ok, value]; ok = FALSE stands for ValueError
ParseInt(s) ==
    IF \E n \in 0..(MaxRows + 1) : ToString(n) = s
    THEN [ok |-> TRUE, value |-> CHOOSE n \in 0..(MaxRows + 1) : ToString(n) = s]
    ELSE [ok |-> FALSE, value |-> 0]

\* f.readline().strip() of the n-th line; '' past the end of the file
ReadLine(lines, n) == IF n <= Len(lines) THEN lines[n] ELSE ""

NoName == "<None>"

\* a faulty variant: the first line read is returned although int() failed
load_progress_keeps_name(file) ==
    IF ~file.exists THEN [filename |-> NoName, index |-> 0]
    ELSE [filename |-> ReadLine(file.lines, 1),
          index |-> IF ParseInt(ReadLine(file.lines, 2)).ok
                    THEN ParseInt(ReadLine(file.lines, 2)).value ELSE 0]

load_progress(file) ==
    IF ~file.exists THEN [filename |-> NoName, index |-> 0]
    ELSE IF ParseInt(ReadLine(file.lines, 2)).ok
         THEN [filename |-> ReadLine(file.lines, 1),
               index |-> ParseInt(ReadLine(file.lines, 2)).value]
         ELSE [filename |-> NoName, index |-> 0]

\* what save_progress(filename, index) leaves in PROGRESS_FILE
save_progress(filename, index) == [exists |-> TRUE, lines |-> << filename, ToString(index) >>]

\* clear_progress(): the file is gone
NoFile == [exists |-> FALSE, lines |-> << >>]
NoTable == [exists |-> FALSE, rows |-> << >>]

\* a faulty variant: the job key of the progress file is not compared
StartIndexAnyJob(flag, saved) == IF flag /\ saved.index > 0 THEN saved.index ELSE 0

\* start_index as decided at lines 237-248
StartIndex(flag, saved) ==
    IF flag /\ saved.filename = input_file /\ saved.index > 0 THEN saved.index ELSE 0

total_processed_count == start_index + session_processed_count

\* a faulty variant: the count advances by the batch size, whatever the slice holds
AdvanceByBatchSize(count, slice) == count + batch_size

\* session_processed_count += len(batch_slice)
Advance(count, slice) == count + Len(slice)

\* header with the output headers set (lines 252-257)
PrepareHeader(h) == SetSpan(h, output_headers)

\* dois_to_process[i:i + batch_size], with dois_to_process = dois[start_index:]
Slice(ds, start, at, size) == SubSeq(ds, start + at + 1, Min(start + at + size, Len(ds)))

\* a faulty variant: a slice whose fetch returned nothing is left as it was read
MergeRowsSkipFailed(rows, start, at, slice, items) ==
    [ r \in 1..Len(rows) |->
        IF r > start + at /\ r <= start + at + Len(slice) /\ items # << >>
        THEN SetSpan(rows[r], OutputValues(slice[r - start - at], items))
        ELSE rows[r] ]

\* the rows after the merge loop of lines 279-297 over the slice
MergeRows(rows, start, at, slice, items) ==
    [ r \in 1..Len(rows) |->
        IF r > start + at /\ r <= start + at + Len(slice)
        THEN SetSpan(rows[r], OutputValues(slice[r - start - at], items))
        ELSE rows[r] ]

----------------------------------------------------------------------------
(* get_metadata_in_batch as a stack machine.  A frame is one activation:   *)
(* its valid_dois, the attempt counter of its retry loop, and where it is: *)
(* "request" (in the retry loop), "first" / "second" (waiting for the      *)
(* recursive call on the first / second half).                             *)

NewFrame(valid) == [valid_dois |-> valid, attempt |-> 0, phase |-> "request", results1 |-> << >>]

\* a faulty variant: one DOI is split off
mid_point_one(valid) == 1
mid_point(valid) == Len(valid) \div 2
\* a faulty variant: the slice ends one element early
first_half_short(valid) == SubSeq(valid, 1, mid_point(valid) - 1)
first_half(valid) == SubSeq(valid, 1, mid_point(valid))
\* a faulty variant: the slice starts one element late
second_half_late(valid) == SubSeq(valid, mid_point(valid) + 2, Len(valid))
second_half(valid) == SubSeq(valid, mid_point(valid) + 1, Len(valid))

Top(st) == st[Len(st)]
Pop(st) == SubSeq(st, 1, Len(st) - 1)

RECURSIVE Return(_, _)
RECURSIVE Enter(_, _)

\* a call get_metadata_in_batch(ds) made with the frames st below it
Enter(st, ds) ==
    IF Present(ds) = << >>
    THEN Return(st, << >>)
    ELSE [stack |-> Append(st, NewFrame(Present(ds))), done |-> FALSE, value |-> << >>]

\* the innermost activation returned v to the frames st
Return(st, v) ==
    IF st = << >> THEN [stack |-> << >>, done |-> TRUE, value |-> v]
    ELSE IF Top(st).phase = "first"
         THEN Enter(Append(Pop(st), [Top(st) EXCEPT !.phase = "second", !.results1 = v]),
                    second_half(Top(st).valid_dois))
         ELSE Return(Pop(st), Top(st).results1 \o v)

\* the line appended to the malformed log for an isolated DOI
SkippedLine(doi) == "Skipped DOI: " \o doi
LogStartedLine == "--- Log started ---"

----------------------------------------------------------------------------
(* Initial states: a process has just been started on an input file that   *)
(* no run has touched yet; a progress file of another job may be present.  *)

Cells == Dois \cup { "" }
InputHeader == << "doi", "note" >>
InputRow(cell) == << cell, "n" >>

NoExchange == [req |-> << >>, status |-> 0]
NoStats == [calls |-> 0, faults |-> 0, logMark |-> 0, depth |-> 0]

ProcessStart ==
    /\ pc = "read"
    /\ header = << >>
    /\ data_rows = << >>
    /\ dois = << >>
    /\ start_index = 0
    /\ i = 0
    /\ session_processed_count = 0
    /\ batch_slice = << >>
    /\ metadata_items = << >>
    /\ stack = << >>
    /\ wire = NoExchange
    /\ slept = 0
    /\ writeError = FALSE
    /\ fetchStats = NoStats

\* what the environment may do in one behaviour: the remote service misbehaves, or
\* writes fail around one process kill, or the process is killed repeatedly
Budgets == { [faults |-> MaxFaults, writeFails |-> 0, crashes |-> 0, restarts |-> 0],
             [faults |-> 0, writeFails |-> MaxWriteFails, crashes |-> 1, restarts |-> 0],
             [faults |-> 0, writeFails |-> 0, crashes |-> MaxCrashes, restarts |-> 0] }

Init ==
    /\ \E n \in 1..MaxRows : \E cells \in [1..n -> Cells] :
          outFile = [exists |-> TRUE,
                     rows |-> << InputHeader >> \o [ r \in 1..n |-> InputRow(cells[r]) ]]
    /\ tmpFile = NoTable
    /\ progressFile \in { NoFile, save_progress("other.csv", 1) }
    /\ malformedLog = << >>
    /\ resume \in BOOLEAN
    /\ batch_size \in 1..MaxBatch
    /\ budget \in Budgets
    /\ ProcessStart

----------------------------------------------------------------------------
(* main(): start-up *)

\* lines 160-235: read the CSV, screen the DOI column, stop when no DOI was found
ReadInput ==
    /\ pc = "read"
    /\ header' = outFile.rows[1]
    /\ data_rows' = Tail(outFile.rows)
    /\ dois' = [ r \in 1..(Len(outFile.rows) - 1) |-> ExtractDoi(outFile.rows[r + 1]) ]
    /\ pc' = IF \E r \in 2..Len(outFile.rows) : ExtractDoi(outFile.rows[r]) # None
             THEN "decide" ELSE "exit"
    /\ UNCHANGED << diskVars, fetchVars, resume, batch_size, start_index, i,
                    session_processed_count, batch_slice, metadata_items, writeError, budget >>

\* lines 238-242: --resume and the progress file names this input at an index > 0
ResumeJob ==
    /\ pc = "decide"
    /\ resume
    /\ StartIndex(resume, load_progress(progressFile)) > 0
    /\ start_index' = StartIndex(resume, load_progress(progressFile))
    /\ resume' = FALSE
    /\ pc' = "openlog"
    /\ UNCHANGED << diskVars, fetchVars, batch_size, header, data_rows, dois, i,
                    session_processed_count, batch_slice, metadata_items, writeError, budget >>

\* lines 243-245: --resume without a usable progress file: start fresh, clear_progress()
ResumeWithoutProgress ==
    /\ pc = "decide"
    /\ resume
    /\ StartIndex(resume, load_progress(progressFile)) = 0
    /\ start_index' = 0
    /\ progressFile' = NoFile
    /\ resume' = FALSE
    /\ pc' = "openlog"
    /\ UNCHANGED << outFile, tmpFile, malformedLog, fetchVars, batch_size, header,
                    data_rows, dois, i, session_processed_count, batch_slice,
                    metadata_items, writeError, budget >>

\* lines 246-248: no --resume: clear_progress()
FreshJob ==
    /\ pc = "decide"
    /\ ~resume
    /\ start_index' = StartIndex(resume, load_progress(progressFile))
    /\ progressFile' = NoFile
    /\ resume' = FALSE
    /\ pc' = "openlog"
    /\ UNCHANGED << outFile, tmpFile, malformedLog, fetchVars, batch_size, header,
                    data_rows, dois, i, session_processed_count, batch_slice,
                    metadata_items, writeError, budget >>

\* lines 250-265: on a fresh start set the output headers and start the malformed log
OpenLog ==
    /\ pc = "openlog"
    /\ header' = IF start_index = 0 THEN PrepareHeader(header) ELSE header
    /\ malformedLog' = IF start_index = 0 THEN Append(malformedLog, LogStartedLine)
                       ELSE malformedLog
    /\ i' = 0
    /\ session_processed_count' = 0
    /\ pc' = "loop"
    /\ UNCHANGED << outFile, tmpFile, progressFile, fetchVars, resume, batch_size,
                    data_rows, dois, start_index, batch_slice, metadata_items,
                    writeError, budget >>

----------------------------------------------------------------------------
(* main(): the batch loop *)

\* lines 267-275: take the next slice and call the fetcher when it holds a DOI
BatchBegin ==
    /\ pc = "loop"
    /\ i < Len(dois) - start_index
    /\ LET slice == Slice(dois, start_index, i, batch_size)
           call == Enter(<< >>, Present(slice))
       IN  /\ batch_slice' = slice
           /\ IF Present(slice) # << >>
              THEN /\ stack' = call.stack
                   /\ metadata_items' = IF call.done THEN call.value ELSE << >>
                   /\ pc' = IF call.done THEN "merge" ELSE "fetch"
              ELSE /\ stack' = << >>
                   /\ metadata_items' = << >>
                   /\ pc' = "merge"
    /\ fetchStats' = [NoStats EXCEPT !.logMark = Len(malformedLog),
                                     !.depth = IF pc' = "fetch" THEN 1 ELSE 0]
    /\ wire' = NoExchange
    /\ slept' = 0
    /\ UNCHANGED << diskVars, resume, batch_size, header, data_rows, dois, start_index,
                    i, session_processed_count, writeError, budget >>

\* lines 277-302: write the slice's rows of the table, count the slice
MergeBatch ==
    /\ pc = "merge"
    /\ data_rows' = MergeRows(data_rows, start_index, i, batch_slice, metadata_items)
    /\ session_processed_count' = Advance(session_processed_count, batch_slice)
    /\ writeError' = FALSE
    /\ wire' = NoExchange
    /\ slept' = 0
    /\ fetchStats' = NoStats
    /\ pc' = "write_open"
    /\ UNCHANGED << diskVars, stack, resume, batch_size, header, dois, start_index, i,
                    batch_slice, metadata_items, budget >>

----------------------------------------------------------------------------
(* write_csv_safely(filename, header, data_rows), lines 40-52.  Each step  *)
(* maps the two files [out, tmp] to what they hold afterwards.             *)

\* a faulty variant: the table is written in place, the file itself is opened for writing
OpenInPlace(out, tmp) == [out |-> [exists |-> TRUE, rows |-> << >>], tmp |-> tmp]

\* line 44: open(temp_filename, 'w') creates or truncates the temporary file
OpenTemp(out, tmp) == [out |-> out, tmp |-> [exists |-> TRUE, rows |-> << >>]]

\* lines 45-47: the header and all rows go to the temporary file
WriteTemp(out, tmp, table) == [out |-> out, tmp |-> [exists |-> TRUE, rows |-> table]]

\* line 48: os.replace(temp_filename, filename)
Replace(out, tmp) == [out |-> tmp, tmp |-> NoTable]

\* lines 49-52: the handler removes the temporary file when it exists
Cleanup(out, tmp) == [out |-> out, tmp |-> NoTable]

WriteOpen ==
    /\ pc = "write_open"
    /\ outFile' = OpenTemp(outFile, tmpFile).out
    /\ tmpFile' = OpenTemp(outFile, tmpFile).tmp
    /\ pc' = "write_rows"
    /\ UNCHANGED << progressFile, malformedLog, fetchVars, loopVars, resume, batch_size,
                    writeError, budget >>

WriteRows ==
    /\ pc = "write_rows"
    /\ outFile' = WriteTemp(outFile, tmpFile, << header >> \o data_rows).out
    /\ tmpFile' = WriteTemp(outFile, tmpFile, << header >> \o data_rows).tmp
    /\ pc' = "replace"
    /\ UNCHANGED << progressFile, malformedLog, fetchVars, loopVars, resume, batch_size,
                    writeError, budget >>

ReplaceFile ==
    /\ pc = "replace"
    /\ outFile' = Replace(outFile, tmpFile).out
    /\ tmpFile' = Replace(outFile, tmpFile).tmp
    /\ pc' = "save_open"
    /\ UNCHANGED << progressFile, malformedLog, fetchVars, loopVars, resume, batch_size,
                    writeError, budget >>

\* an exception at line 44, lines 45-47 or line 48: lines 49-52 print CRITICAL ERROR,
\* remove the temporary file and return normally to main
WriteFails ==
    /\ pc \in { "write_open", "write_rows", "replace" }
    /\ budget.writeFails > 0
    /\ budget' = [budget EXCEPT !.writeFails = @ - 1]
    /\ outFile' = Cleanup(outFile, tmpFile).out
    /\ tmpFile' = Cleanup(outFile, tmpFile).tmp
    /\ writeError' = TRUE
    /\ pc' = "save_open"
    /\ UNCHANGED << progressFile, malformedLog, fetchVars, loopVars, resume, batch_size >>

----------------------------------------------------------------------------
(* save_progress(args.input_file, total_processed_count), line 322 *)

\* line 113: open(PROGRESS_FILE, 'w') truncates the file
SaveOpen ==
    /\ pc = "save_open"
    /\ progressFile' = [exists |-> TRUE, lines |-> << >>]
    /\ pc' = "save_write"
    /\ UNCHANGED << outFile, tmpFile, malformedLog, fetchVars, loopVars, resume,
                    batch_size, writeError, budget >>

\* line 114: both lines are written
SaveWrite ==
    /\ pc = "save_write"
    /\ progressFile' = save_progress(input_file, total_processed_count)
    /\ pc' = "sleep"
    /\ UNCHANGED << outFile, tmpFile, malformedLog, fetchVars, loopVars, resume,
                    batch_size, writeError, budget >>

\* line 324 and the loop header: pause, then the next i
PauseBatch ==
    /\ pc = "sleep"
    /\ i' = i + batch_size
    /\ pc' = "loop"
    /\ UNCHANGED << diskVars, fetchVars, resume, batch_size, header, data_rows, dois,
                    start_index, session_processed_count, batch_slice, metadata_items,
                    writeError, budget >>

\* lines 326-327: the loop is over, clear_progress()
Complete ==
    /\ pc = "loop"
    /\ i >= Len(dois) - start_index
    /\ progressFile' = NoFile
    /\ pc' = "done"
    /\ UNCHANGED << outFile, tmpFile, malformedLog, fetchVars, loopVars, resume,
                    batch_size, writeError, budget >>

----------------------------------------------------------------------------
(* get_metadata_in_batch, lines 56-108: one action per answer to the request *)
(* of line 72 made by the innermost activation.                              *)

Requesting == pc = "fetch" /\ stack # << >> /\ Top(stack).attempt < MaxRetries

\* the activation returns v, or calls itself again: the stack and main's result
Resume(outcome) ==
    /\ stack' = outcome.stack
    /\ metadata_items' = IF outcome.done THEN outcome.value ELSE metadata_items
    /\ pc' = IF outcome.done THEN "merge" ELSE "fetch"

Sent(status, fault) ==
    /\ wire' = [req |-> Top(stack).valid_dois, status |-> status]
    /\ fetchStats' = [fetchStats EXCEPT !.calls = @ + 1,
                                        !.faults = @ + (IF fault THEN 1 ELSE 0),
                                        !.depth = IF Len(stack') > @ THEN Len(stack') ELSE @]

\* a faulty variant: the attempt is not counted
RetryUncounted == stack' = stack
Retry == stack' = [stack EXCEPT ![Len(stack)].attempt = @ + 1]

\* the sleep after a network error (lines 103-105)
NetworkErrorWait(attempt) == IF attempt < MaxRetries - 1 THEN NetworkErrorSleep ELSE 0

\* lines 77-79: 200, the items are returned
FetchOk ==
    /\ Requesting
    /\ ~HasMalformed(Top(stack).valid_dois)
    /\ Resume(Return(Pop(stack), ResponseItems(Top(stack).valid_dois)))
    /\ Sent(200, FALSE)
    /\ UNCHANGED << diskVars, resume, batch_size, header, data_rows, dois, start_index, i,
                    session_processed_count, batch_slice, slept, writeError, budget >>

\* lines 81-90: 400 for a single DOI: log it and return []
FetchIsolated ==
    /\ Requesting
    /\ HasMalformed(Top(stack).valid_dois)
    /\ Len(Top(stack).valid_dois) = 1
    /\ malformedLog' = Append(malformedLog, SkippedLine(Top(stack).valid_dois[1]))
    /\ Resume(Return(Pop(stack), << >>))
    /\ Sent(400, FALSE)
    /\ UNCHANGED << outFile, tmpFile, progressFile, resume, batch_size, header, data_rows,
                    dois, start_index, i, session_processed_count, batch_slice, slept,
                    writeError, budget >>

\* lines 91-96: 400 for several DOIs: recurse on the first half
FetchBisect ==
    /\ Requesting
    /\ HasMalformed(Top(stack).valid_dois)
    /\ Len(Top(stack).valid_dois) > 1
    /\ Resume(Enter([stack EXCEPT ![Len(stack)].phase = "first"],
                    first_half(Top(stack).valid_dois)))
    /\ Sent(400, FALSE)
    /\ UNCHANGED << diskVars, resume, batch_size, header, data_rows, dois, start_index, i,
                    session_processed_count, batch_slice, slept, writeError, budget >>

\* lines 73-76: 429 or 503: sleep 10, next attempt
FetchRateLimited ==
    /\ Requesting
    /\ budget.faults > 0
    /\ Retry
    /\ \E status \in { 429, 503 } : Sent(status, TRUE)
    /\ budget' = [budget EXCEPT !.faults = @ - 1]
    /\ slept' = RateLimitSleep
    /\ UNCHANGED << diskVars, pc, resume, batch_size, loopVars, writeError >>

\* lines 101-106: a RequestException that is no HTTPError: sleep 2 unless it was
\* the last attempt, next attempt
FetchNetworkError ==
    /\ Requesting
    /\ budget.faults > 0
    /\ Retry
    /\ Sent(0, TRUE)
    /\ budget' = [budget EXCEPT !.faults = @ - 1]
    /\ slept' = NetworkErrorWait(Top(stack).attempt)
    /\ UNCHANGED << diskVars, pc, resume, batch_size, loopVars, writeError >>

\* a faulty variant: any other HTTP error status is retried like 429
FetchHttpErrorRetried ==
    /\ Requesting
    /\ budget.faults > 0
    /\ Retry
    /\ \E status \in { 404, 500 } : Sent(status, TRUE)
    /\ budget' = [budget EXCEPT !.faults = @ - 1]
    /\ slept' = RateLimitSleep
    /\ UNCHANGED << diskVars, pc, resume, batch_size, loopVars, writeError >>

\* lines 99-100: any other HTTP error status: return []
FetchHttpError ==
    /\ Requesting
    /\ budget.faults > 0
    /\ budget' = [budget EXCEPT !.faults = @ - 1]
    /\ Resume(Return(Pop(stack), << >>))
    /\ \E status \in { 404, 500 } : Sent(status, TRUE)
    /\ UNCHANGED << diskVars, resume, batch_size, header, data_rows, dois, start_index, i,
                    session_processed_count, batch_slice, slept, writeError >>

\* a faulty variant: a batch given up after the last attempt is logged as skipped
FetchGiveUpLogged ==
    /\ pc = "fetch"
    /\ stack # << >>
    /\ Top(stack).attempt >= MaxRetries
    /\ malformedLog' = Append(malformedLog, SkippedLine(Top(stack).valid_dois[1]))
    /\ Resume(Return(Pop(stack), << >>))
    /\ UNCHANGED << outFile, tmpFile, progressFile, resume, batch_size, header, data_rows,
                    dois, start_index, i, session_processed_count, batch_slice, wire, slept,
                    fetchStats, writeError, budget >>

\* lines 107-108: the retry loop ran out: return []
FetchGiveUp ==
    /\ pc = "fetch"
    /\ stack # << >>
    /\ Top(stack).attempt >= MaxRetries
    /\ Resume(Return(Pop(stack), << >>))
    /\ UNCHANGED << diskVars, resume, batch_size, header, data_rows, dois, start_index, i,
                    session_processed_count, batch_slice, wire, slept, fetchStats,
                    writeError, budget >>

----------------------------------------------------------------------------
(* The process is killed (or dies of an uncaught exception) and is started *)
(* again on the same input, with or without --resume.  Only the disk       *)
(* survives.                                                               *)
CrashAndRestart ==
    /\ pc \notin { "done", "exit" }
    /\ budget.crashes > 0
    /\ budget' = [budget EXCEPT !.crashes = @ - 1, !.restarts = @ + 1]
    /\ resume' \in BOOLEAN
    /\ pc' = "read"
    /\ header' = << >>
    /\ data_rows' = << >>
    /\ dois' = << >>
    /\ start_index' = 0
    /\ i' = 0
    /\ session_processed_count' = 0
    /\ batch_slice' = << >>
    /\ metadata_items' = << >>
    /\ stack' = << >>
    /\ wire' = NoExchange
    /\ slept' = 0
    /\ writeError' = FALSE
    /\ fetchStats' = NoStats
    /\ UNCHANGED << diskVars, batch_size >>

Next ==
    \/ ReadInput
    \/ ResumeJob
    \/ ResumeWithoutProgress
    \/ FreshJob
    \/ OpenLog
    \/ BatchBegin
    \/ MergeBatch
    \/ WriteOpen
    \/ WriteRows
    \/ ReplaceFile
    \/ WriteFails
    \/ SaveOpen
    \/ SaveWrite
    \/ PauseBatch
    \/ Complete
    \/ FetchOk
    \/ FetchIsolated
    \/ FetchBisect
    \/ FetchRateLimited
    \/ FetchNetworkError
    \/ FetchHttpError
    \/ FetchGiveUp
    \/ CrashAndRestart

Spec == Init /\ [][Next]_vars

----------------------------------------------------------------------------
(* Notions the properties below are stated in. *)

\* a data row of the file that a batch has been written to: it reaches the end of the span
Processed(row) == Len(row) >= required_row_len

\* the number of leading input positions whose rows the on-disk file reflects
Covered(file) ==
    LET n == Len(file.rows) - 1
        done == { k \in 0..n : \A r \in 1..k : Processed(file.rows[r + 1]) }
    IN  CHOOSE k \in done : \A m \in done : m <= k

\* the offset the progress file holds for this input (0 when it holds none)
CheckpointOffset == StartIndex(TRUE, load_progress(progressFile))
HasCheckpoint == load_progress(progressFile).filename = input_file

\* the metadata cells of a row
Span(row) == [ k \in 1..Len(output_headers) |-> row[output_start_index + k] ]
EmptyRecord == [ k \in 1..Len(output_headers) |-> "" ]

\* the row of the in-memory table at position j of the current slice
SliceRow(j) == data_rows[start_index + i + j]
Found(doi) == doi # None /\ Lower(doi) \in DOMAIN metadata_map(metadata_items)

----------------------------------------------------------------------------
(* C1: in every reachable state, failed output writes and crashes included, *)
(* the offset in the progress file is never greater than the number of     *)
(* input positions the on-disk output reflects; the progress file is not   *)
(* written for a batch whose output write failed; and within one process   *)
(* run the output is at most one batch ahead of the progress file.         *)
C1_CheckpointBehindOutput ==
    HasCheckpoint =>
        /\ CheckpointOffset <= Covered(outFile)
        /\ (pc = "sleep" => ~writeError)
        /\ (budget.restarts = 0 => Covered(outFile) <= CheckpointOffset + batch_size)

(* C2: wherever the run is interrupted, a following resume starts at       *)
(* exactly the boundary the on-disk table reflects: no gap, no duplication *)
C2_ResumeAtOutputBoundary ==
    (pc = "openlog" /\ start_index > 0) => start_index = Covered(outFile)

\* get_metadata_in_batch against a service without transient failures, as a function
RECURSIVE Resolve(_)
Resolve(q) ==
    IF Present(q) = << >> THEN << >>
    ELSE IF ~HasMalformed(Present(q)) THEN ResponseItems(Present(q))
    ELSE IF Len(Present(q)) = 1 THEN << >>
    ELSE Resolve(first_half(Present(q))) \o Resolve(second_half(Present(q)))

\* the table a single uninterrupted run from offset 0 leaves on disk
RECURSIVE RunBatches(_, _, _, _)
RunBatches(rows, ds, at, size) ==
    IF at >= Len(ds) THEN rows
    ELSE RunBatches(MergeRows(rows, 0, at, Slice(ds, 0, at, size),
                              Resolve(Present(Slice(ds, 0, at, size)))),
                    ds, at + size, size)

UninterruptedTable ==
    LET n == Len(outFile.rows) - 1
        input == [ r \in 1..n |-> SubSeq(outFile.rows[r + 1], 1, Len(InputHeader)) ]
        ds == [ r \in 1..n |-> ExtractDoi(input[r]) ]
    IN  << PrepareHeader(InputHeader) >> \o RunBatches(input, ds, 0, batch_size)

(* C3: a run that crashed and was resumed with --resume on the same input, *)
(* against a deterministic service, ends with the same on-disk table as a  *)
(* single uninterrupted run.                                               *)
C3_ResumedRunSameTable ==
    (pc = "done" /\ start_index > 0 /\ budget.faults = 0) => outFile.rows = UninterruptedTable

\* the DOIs the running fetch was called with, and the malformed ones among them
Query == Present(batch_slice)
BadPositions == { n \in 1..Len(Query) : Malformed(Query[n]) }
TheBad == Query[CHOOSE n \in BadPositions : TRUE]

RECURSIVE WellFormed(_)
WellFormed(q) ==
    IF q = << >> THEN << >>
    ELSE (IF Malformed(Head(q)) THEN << >> ELSE << Head(q) >>) \o WellFormed(Tail(q))

(* C4: a fetch of a batch with exactly one malformed DOI, answered without *)
(* transient failures, returns exactly the items of the other DOIs and     *)
(* appends exactly one line to the malformed log, naming that DOI,         *)
(* wherever the malformed DOI stands in the batch.                         *)
C4_OneMalformedIsolated ==
    (pc = "merge" /\ Cardinality(BadPositions) = 1 /\ fetchStats.faults = 0) =>
        /\ metadata_items = ResponseItems(WellFormed(Query))
        /\ Len(malformedLog) = fetchStats.logMark + 1
        /\ malformedLog[Len(malformedLog)] = SkippedLine(TheBad)

C4_Witness ==
    /\ pc = "merge"
    /\ Len(Query) = 3
    /\ BadPositions = { 2 }
    /\ Known(Query[1]) /\ Known(Query[3])
    /\ fetchStats.faults = 0
    /\ Len(metadata_items) = 2

(* C5: the CSV file changes only by the os.replace of a completely written *)
(* temporary file, so it always holds the complete previous or the         *)
(* complete new table; a failed write leaves it unchanged and leaves no    *)
(* temporary file.                                                         *)
C5_AtomicReplace ==
    [][ /\ \/ outFile' = outFile
           \/ /\ pc = "replace"
              /\ outFile' = [exists |-> TRUE, rows |-> << header >> \o data_rows]
        /\ (writeError' /\ ~writeError) => (outFile' = outFile /\ ~tmpFile'.exists)
      ]_vars

C5_Witness ==
    /\ writeError
    /\ ~tmpFile.exists
    /\ outFile.rows # << header >> \o data_rows
    /\ Covered(outFile) > 0

(* C6: a failed output write is fatal for the run: the progress file is    *)
(* not saved for that batch and no further batch is dispatched.            *)
C6_FailedWriteIsFatal ==
    writeError => pc = "save_open"

(* C7: the offset save_progress persists after a batch is the number of    *)
(* input positions covered so far: the starting offset plus every slice of *)
(* this session, the last one possibly shorter than the batch size.        *)
C7_CheckpointIsCumulativeCount ==
    pc = "sleep" =>
        progressFile = [exists |-> TRUE,
                        lines |-> << input_file,
                                     ToString(Min(start_index + i + batch_size, Len(dois))) >>]

C7_Witness ==
    /\ pc = "sleep"
    /\ start_index > 0
    /\ start_index + i + batch_size > Len(dois)
    /\ load_progress(progressFile).index = Len(dois)

IsNumeral(t) == \E n \in 0..(MaxRows + 1) : ToString(n) = t
NumeralValue(t) == CHOOSE n \in 0..(MaxRows + 1) : ToString(n) = t
MatchingCheckpoint ==
    /\ progressFile.exists
    /\ Len(progressFile.lines) = 2
    /\ progressFile.lines[1] = input_file
    /\ IsNumeral(progressFile.lines[2])

(* C9: with --resume the loop starts at the checkpointed offset exactly    *)
(* when the progress file holds a checkpoint of this input; in every other *)
(* case it starts at 0 and the progress file is gone before the first      *)
(* batch.                                                                  *)
C9_ResumeIffMatchingCheckpoint ==
    [][ (pc = "decide" /\ pc' = "openlog") =>
            IF resume /\ MatchingCheckpoint
            THEN start_index' = NumeralValue(progressFile.lines[2])
            ELSE start_index' = 0 /\ progressFile' = NoFile
      ]_vars

C9_Witness ==
    /\ pc = "openlog"
    /\ start_index > 0
    /\ MatchingCheckpoint

\* a step in which the fetcher sent a request
Sends == fetchStats'.calls = fetchStats.calls + 1
Transient(status) == status \in { 429, 503, 0 }

(* C10: whatever transient answers one list gets, the fetcher sends the    *)
(* same list again, at most 3 times in all; after the third it returns an  *)
(* empty result and writes nothing to the malformed log; it sleeps 10      *)
(* after a 429/503 and 2 after a network error before the next attempt.    *)
C10_BoundedRetry ==
    [][ /\ Sends =>
              /\ Top(stack).attempt < 3
              /\ wire'.req = Top(stack).valid_dois
        /\ (Sends /\ Transient(wire'.status)) =>
              /\ Len(stack') = Len(stack)
              /\ Top(stack').valid_dois = Top(stack).valid_dois
              /\ Top(stack').attempt = Top(stack).attempt + 1
              /\ wire'.status \in { 429, 503 } => slept' = 10
              /\ (wire'.status = 0 /\ Top(stack').attempt < 3) => slept' = 2
              /\ malformedLog' = malformedLog
        /\ (pc = "fetch" /\ Top(stack).attempt = 3 /\ budget'.restarts = budget.restarts) =>
              /\ malformedLog' = malformedLog
              /\ Len(stack) = 1 => (pc' = "merge" /\ metadata_items' = << >>)
              /\ (Len(stack) > 1 /\ stack[Len(stack) - 1].phase = "first") =>
                     stack'[Len(stack) - 1].results1 = << >>
              /\ (Len(stack) > 1 /\ stack[Len(stack) - 1].phase = "second") =>
                     \/ pc' = "merge" /\ metadata_items' = stack[Len(stack) - 1].results1
                     \/ Len(stack') < Len(stack)
      ]_vars

C10_Witness ==
    /\ pc = "merge"
    /\ fetchStats.calls = 3
    /\ fetchStats.faults = 3
    /\ Transient(wire.status)
    /\ metadata_items = << >>
    /\ Len(malformedLog) = fetchStats.logMark

----------------------------------------------------------------------------
(* A measure of the work a run of the process still has to do: every     *)
(* statement it executes and every answer it receives lowers it.           *)

\* the steps one activation of get_metadata_in_batch and its recursive calls can take
RECURSIVE CallRank(_)
CallRank(ds) ==
    IF ds = << >> THEN 0
    ELSE MaxRetries + 1
         + (IF Len(ds) > 1 THEN CallRank(first_half(ds)) + CallRank(second_half(ds)) ELSE 0)

\* what is left of an activation that is on the stack
FrameRank(f) ==
    CASE f.phase = "request" ->
             (MaxRetries + 1 - f.attempt)
             + (IF Len(f.valid_dois) > 1
                THEN CallRank(first_half(f.valid_dois)) + CallRank(second_half(f.valid_dois))
                ELSE 0)
      [] f.phase = "first" -> CallRank(second_half(f.valid_dois))
      [] OTHER -> 0

RECURSIVE StackRank(_)
StackRank(st) == IF st = << >> THEN 0 ELSE FrameRank(Head(st)) + StackRank(Tail(st))

\* the statements of one pass of the loop body, counted from its end
BodyRank ==
    CASE pc = "fetch" -> 8 + StackRank(stack)
      [] pc = "merge" -> 7
      [] pc = "write_open" -> 6
      [] pc = "write_rows" -> 5
      [] pc = "replace" -> 4
      [] pc = "save_open" -> 3
      [] pc = "save_write" -> 2
      [] pc = "sleep" -> 1
      [] OTHER -> 0

\* the passes of the loop from offset at on, and the final clear_progress
RECURSIVE LoopRank(_, _, _, _)
LoopRank(ds, start, at, size) ==
    IF at >= Len(ds) - start THEN 1
    ELSE 9 + CallRank(Present(Slice(ds, start, at, size))) + LoopRank(ds, start, at + size, size)

\* the DOI column of the file on disk
InputDois == [ r \in 1..(Len(outFile.rows) - 1) |-> ExtractDoi(outFile.rows[r + 1]) ]

Rank ==
    CASE pc = "read" -> 3 + LoopRank(InputDois, 0, 0, batch_size)
      [] pc = "decide" -> 2 + LoopRank(dois, 0, 0, batch_size)
      [] pc = "openlog" -> 1 + LoopRank(dois, start_index, 0, batch_size)
      [] pc = "loop" -> LoopRank(dois, start_index, i, batch_size)
      [] pc \in { "done", "exit" } -> 0
      [] OTHER -> BodyRank + LoopRank(dois, start_index, i + batch_size, batch_size)

\* a step of the process itself, not a kill and restart
ProgramStep == budget'.restarts = budget.restarts
RankFalls == ProgramStep => Rank' < Rank
Ended == pc \in { "done", "exit" }

(* C11: no remote failure aborts the run.  A fetch always hands control    *)
(* back to the batch loop; once a slice is merged every one of its rows    *)
(* reaches the end of the metadata span, with an all-empty record where no *)
(* item was returned, and the table keeps one row per input position; the  *)
(* loop ends only when every position was counted, with one row per input  *)
(* position on disk; and every run of the process reaches its end, as each *)
(* of its steps lowers a natural-number measure and it is never stuck      *)
(* before the end.                                                         *)
FetchHandsBack == pc = "fetch" => pc' \in { "fetch", "merge", "read" }
SliceWritten ==
    /\ pc \in { "loop", "fetch", "merge", "write_open", "write_rows", "replace",
                "save_open", "save_write", "sleep", "done" } => Len(data_rows) = Len(dois)
    /\ pc \in { "write_open", "write_rows", "replace", "save_open", "save_write", "sleep" } =>
           \A j \in 1..Len(batch_slice) :
              /\ Processed(SliceRow(j))
              /\ ~Found(batch_slice[j]) => Span(SliceRow(j)) = EmptyRecord
    /\ pc = "done" => /\ start_index + session_processed_count = Len(dois)
                      /\ Len(outFile.rows) = Len(dois) + 1
C11_RunSurvivesRemoteFailures ==
    /\ [][FetchHandsBack /\ RankFalls]_vars
    /\ [](SliceWritten /\ Rank \in Nat /\ (Ended \/ ENABLED (Next /\ ProgramStep)))

\* every transient failure of the budget was met, a resolvable DOI went without
\* its item, and the run still reached its end
C11_Witness ==
    /\ pc = "done"
    /\ budget = [faults |-> 0, writeFails |-> 0, crashes |-> 0, restarts |-> 0]
    /\ Len(data_rows) > 1
    /\ \E r \in 1..Len(data_rows) :
          /\ dois[r] # None /\ Known(dois[r])
          /\ Span(data_rows[r]) = EmptyRecord


----------------------------------------------------------------------------
\* the DOI lists of the activations of get_metadata_in_batch that are running
RunningLists == { stack[n].valid_dois : n \in 1..Len(stack) }
HasNone(ds) == \E n \in 1..Len(ds) : ds[n] = None

(* C12: an absent identifier is in no request and in no list a running     *)
(* activation holds, top-level or bisected; a slice without a present      *)
(* identifier reaches the merge with no request sent; and after the merge  *)
(* the row of an absent identifier holds an all-empty record.              *)
C12_AbsentNeverRequested ==
    /\ ~HasNone(wire.req)
    /\ \A ds \in RunningLists : ~HasNone(ds) /\ ds # << >>
    /\ (pc \in { "fetch", "merge" } /\ Query = << >>) =>
           pc = "merge" /\ fetchStats.calls = 0 /\ wire = NoExchange
    /\ pc \in { "write_open", "write_rows", "replace", "save_open", "save_write", "sleep" } =>
           \A j \in 1..Len(batch_slice) :
              batch_slice[j] = None => Span(SliceRow(j)) = EmptyRecord

\* a slice with an absent identifier was bisected and its last request answered
C12_Witness ==
    /\ pc = "merge"
    /\ HasNone(batch_slice)
    /\ fetchStats.depth > 1
    /\ wire.req # << >>

----------------------------------------------------------------------------
(* get_metadata_in_batch on its own: the process stands at line 275 of a   *)
(* job of one batch, about to call the fetcher with the DOIs of the slice, *)
(* and runs until the call returns.  Lists are longer here than the        *)
(* batches of Spec; failures of the service are injected for the lists of  *)
(* up to MaxBatch DOIs of Dois, and for the lists shorter than MaxBatch as *)
(* many as it takes to give every activation its third request.            *)

\* the failed requests that give every activation of a fetch of n DOIs its third request
FullRetries(n) == (MaxRetries - 1) * (2 * n - 1)

RECURSIVE Lists(_)
Lists(n) ==
    IF n = 0 THEN { << >> } ELSE { << d >> \o l : d \in FetchDois, l \in Lists(n - 1) }

FetchInit ==
    /\ \E n \in 1..MaxList : batch_slice \in Lists(n)
    /\ outFile = [exists |-> TRUE,
                  rows |-> << PrepareHeader(InputHeader) >>
                           \o [ r \in 1..Len(batch_slice) |-> InputRow(batch_slice[r]) ]]
    /\ tmpFile = NoTable
    /\ progressFile = NoFile
    /\ malformedLog = << LogStartedLine >>
    /\ pc = "fetch"
    /\ resume = FALSE
    /\ batch_size = Len(batch_slice)
    /\ header = outFile.rows[1]
    /\ data_rows = Tail(outFile.rows)
    /\ dois = batch_slice
    /\ start_index = 0
    /\ i = 0
    /\ session_processed_count = 0
    /\ metadata_items = << >>
    /\ stack = Enter(<< >>, Present(batch_slice)).stack
    /\ wire = NoExchange
    /\ slept = 0
    /\ writeError = FALSE
    /\ fetchStats = [NoStats EXCEPT !.logMark = Len(malformedLog), !.depth = 1]
    /\ \E f \in { 0 } \cup (IF Len(batch_slice) <= MaxBatch /\ batch_slice \in Seq(Dois)
                            THEN { MaxFaults } ELSE { })
                     \cup (IF Len(batch_slice) < MaxBatch /\ batch_slice \in Seq(Dois)
                           THEN { FullRetries(Len(batch_slice)) + 1 } ELSE { }) :
          budget = [faults |-> f, writeFails |-> 0, crashes |-> 0, restarts |-> 0]

FetchNext ==
    \/ FetchOk
    \/ FetchIsolated
    \/ FetchBisect
    \/ FetchRateLimited
    \/ FetchNetworkError
    \/ FetchHttpError
    \/ FetchGiveUp

FetchSpec == FetchInit /\ [][FetchNext]_vars

\* the least k with n <= 2^k
RECURSIVE CeilLog2(_)
CeilLog2(n) == IF n <= 1 THEN 0 ELSE 1 + CeilLog2((n + 1) \div 2)

(* C13: while and after a fetch of n DOIs of which exactly one is          *)
(* malformed, answered without transient failures, the activations nest at *)
(* most ceil(log2 n) deep below the top-level one and at most              *)
(* 2 * ceil(log2 n) recursive calls were made.  Without failures every     *)
(* activation sends exactly one request, so the recursive calls are the    *)
(* requests but the first.                                                 *)
C13_LogarithmicBisection ==
    (pc \in { "fetch", "merge" } /\ Cardinality(BadPositions) = 1 /\ fetchStats.faults = 0) =>
        /\ fetchStats.depth - 1 <= CeilLog2(Len(Query))
        /\ fetchStats.calls - 1 <= 2 * CeilLog2(Len(Query))
        /\ Len(stack) <= fetchStats.depth

\* the bound is met: a list of MaxList DOIs, the malformed one isolated at the deepest level
C13_Witness ==
    /\ pc = "merge"
    /\ Cardinality(BadPositions) = 1
    /\ fetchStats.faults = 0
    /\ Len(Query) > 4
    /\ fetchStats.depth - 1 = CeilLog2(Len(Query))
    /\ fetchStats.calls - 1 = 2 * CeilLog2(Len(Query))

----------------------------------------------------------------------------
\* an HTTP error status that is none of 400, 429, 503
OtherHttpError(status) == status >= 400 /\ status \notin { 400, 429, 503 }

\* the innermost activation below the top that waits for its first half (0: none);
\* the activations above it wait for their second halves and return with the top
WaitingCaller ==
    LET waiting == { n \in 1..(Len(stack) - 1) : stack[n].phase = "first" }
    IN  IF waiting = { } THEN 0 ELSE CHOOSE n \in waiting : \A m \in waiting : m <= n

\* results1 of the activations from k up to the one below the top, in order
RECURSIVE Carried(_)
Carried(k) == IF k >= Len(stack) THEN << >> ELSE stack[k].results1 \o Carried(k + 1)

\* the top activation returns [] in this step: the activations waiting for their
\* second halves return what their first halves gave, and the fetch is over or goes
\* on with the second half of the activation that waited for its first
TopReturnedEmpty ==
    IF WaitingCaller = 0
    THEN /\ pc' = "merge"
         /\ stack' = << >>
         /\ metadata_items' = Carried(1)
    ELSE /\ pc' = "fetch"
         /\ Len(stack') = WaitingCaller + 1
         /\ \A n \in 1..(WaitingCaller - 1) : stack'[n] = stack[n]
         /\ stack'[WaitingCaller] = [stack[WaitingCaller] EXCEPT
                                        !.phase = "second",
                                        !.results1 = Carried(WaitingCaller + 1)]
         /\ Top(stack') = NewFrame(second_half(stack[WaitingCaller].valid_dois))

(* C14: a request answered with an HTTP error status other than 400, 429   *)
(* and 503 ends its activation at once, whatever its attempt counter: the  *)
(* activation returns the empty list to its caller without a recursive    *)
(* call (no bisection), and the malformed log is unchanged.                *)
OtherHttpErrorStep ==
    (Sends /\ OtherHttpError(wire'.status)) =>
        /\ wire'.req = Top(stack).valid_dois
        /\ TopReturnedEmpty
        /\ malformedLog' = malformedLog
C14_OtherHttpErrorAbandons == [][OtherHttpErrorStep]_vars

\* the first request of a fetch, two attempts still left, was answered 500 and the
\* fetch is over with no item
C14_Witness ==
    /\ pc = "merge"
    /\ wire.status = 500
    /\ fetchStats.calls = 1
    /\ Len(wire.req) > 1
    /\ metadata_items = << >>

----------------------------------------------------------------------------
\* the progress file as the last completed save_progress of this run wrote it
LastSaved ==
    save_progress(input_file,
                  total_processed_count
                  - (IF pc \in { "write_open", "write_rows", "replace", "save_open", "save_write" }
                     THEN Len(batch_slice) ELSE 0))

\* this run has completed a save_progress and not yet left the loop
SavedInThisRun ==
    \/ pc = "sleep"
    \/ i > 0 /\ pc \in { "loop", "fetch", "merge", "write_open", "write_rows", "replace",
                          "save_open", "save_write" }

\* the process is killed
Killed == budget'.restarts = budget.restarts + 1

(* C15: the progress file is rewritten after every batch, is gone once the *)
(* loop has processed all batches, and when the run is killed after its    *)
(* first save the file left on disk holds the pair the last save wrote.    *)
C15_CheckpointLifecycle ==
    /\ [](pc = "done" => progressFile = NoFile)
    /\ [](pc = "sleep" => progressFile = LastSaved)
    /\ [][(Killed /\ SavedInThisRun) => progressFile' = LastSaved]_vars

----------------------------------------------------------------------------
(* The start of main() on its own, lines 160-265, over progress files of   *)
(* every shape: absent, empty, cut off after the first line, with an       *)
(* offset that is no integer, and well-formed for this or another input.   *)

CheckpointFiles ==
    { NoFile,
      [exists |-> TRUE, lines |-> << >>],
      [exists |-> TRUE, lines |-> << input_file >>],
      [exists |-> TRUE, lines |-> << input_file, "x" >>],
      [exists |-> TRUE, lines |-> << input_file, "1.5" >>],
      save_progress(input_file, 0),
      save_progress(input_file, 1),
      save_progress("other.csv", 1) }

StartInit ==
    /\ \E n \in 1..MaxRows : \E cells \in [1..n -> Cells] :
          outFile = [exists |-> TRUE,
                     rows |-> << InputHeader >> \o [ r \in 1..n |-> InputRow(cells[r]) ]]
    /\ tmpFile = NoTable
    /\ progressFile \in CheckpointFiles
    /\ malformedLog = << >>
    /\ resume \in BOOLEAN
    /\ batch_size \in 1..MaxBatch
    /\ budget = [faults |-> 0, writeFails |-> 0, crashes |-> 0, restarts |-> 0]
    /\ ProcessStart

StartNext ==
    \/ ReadInput
    \/ ResumeJob
    \/ ResumeWithoutProgress
    \/ FreshJob
    \/ OpenLog

StartSpec == StartInit /\ [][StartNext]_vars

\* a progress file that is absent, empty, without its second line, or whose second
\* line is no integer
BadCheckpoint(file) ==
    \/ ~file.exists
    \/ Len(file.lines) < 2
    \/ ~IsNumeral(file.lines[2])

(* C16: for a progress file that is absent, empty, cut off after the first *)
(* line or whose offset is no integer, load_progress returns (None, 0),    *)
(* and a run with --resume that finds such a file goes on as a fresh run:  *)
(* start_index 0, the progress file cleared, the header prepared.          *)
C16_BadCheckpointIsNoCheckpoint ==
    /\ [](BadCheckpoint(progressFile) =>
             load_progress(progressFile) = [filename |-> NoName, index |-> 0])
    /\ [][(pc = "decide" /\ resume /\ BadCheckpoint(progressFile)) =>
             (pc' = "openlog" /\ start_index' = 0 /\ progressFile' = NoFile)]_vars
    /\ [][(pc = "openlog" /\ start_index = 0) =>
             (pc' = "loop" /\ i' = 0 /\ header' = PrepareHeader(header))]_vars

\* --resume is about to read a progress file of this input whose offset is no integer
C16_Witness ==
    /\ pc = "decide"
    /\ resume
    /\ progressFile.exists
    /\ Len(progressFile.lines) = 2
    /\ progressFile.lines[1] = input_file
    /\ BadCheckpoint(progressFile)

----------------------------------------------------------------------------
\* the malformed DOIs of q, in the order of q
RECURSIVE MalformedOnes(_)
MalformedOnes(q) ==
    IF q = << >> THEN << >>
    ELSE (IF Malformed(Head(q)) THEN << Head(q) >> ELSE << >>) \o MalformedOnes(Tail(q))

\* the lines the running fetch has appended to the malformed log
LoggedByFetch == SubSeq(malformedLog, fetchStats.logMark + 1, Len(malformedLog))

(* C17: a fetch answered without transient failures, 400 exactly for the   *)
(* requests that hold a malformed DOI, returns the items of the well-      *)
(* formed DOIs of the batch, in batch order and none missing, and appends  *)
(* to the malformed log one line per occurrence of a malformed DOI and     *)
(* nothing else, however many DOIs of the batch are malformed.             *)
C17_BisectionKeepsWellFormed ==
    (pc = "merge" /\ fetchStats.faults = 0) =>
        /\ metadata_items = ResponseItems(WellFormed(Query))
        /\ LoggedByFetch = [ n \in 1..Len(MalformedOnes(Query)) |->
                               SkippedLine(MalformedOnes(Query)[n]) ]

\* several malformed DOIs between resolvable ones, in a list of more than four
C17_Witness ==
    /\ pc = "merge"
    /\ fetchStats.faults = 0
    /\ Len(Query) > 4
    /\ Cardinality(BadPositions) > 1
    /\ Cardinality(BadPositions) < Len(Query) - 1
    /\ \E m, n \in BadPositions : Query[m] # Query[n]
    /\ Len(metadata_items) > 1
    /\ Len(LoggedByFetch) = Cardinality(BadPositions)

----------------------------------------------------------------------------
\* a step of get_metadata_in_batch
FetchStep == pc = "fetch" /\ ProgramStep

\* a request of exactly one DOI was answered 400 in this step
SingleRejected == Sends /\ wire'.status = 400 /\ Len(wire'.req) = 1

(* C18: a step of get_metadata_in_batch leaves the table in memory and on  *)
(* disk, the temporary file, the progress file, the DOI list and the slice *)
(* of its caller and the loop counters unchanged; it changes the malformed *)
(* log exactly when a request of one DOI is answered 400, by appending the *)
(* line of that DOI.                                                       *)
FetchStepFrame ==
    FetchStep =>
        /\ UNCHANGED << outFile, tmpFile, progressFile, header, data_rows, dois, batch_slice,
                        start_index, i, session_processed_count, batch_size >>
        /\ IF SingleRejected
           THEN malformedLog' = Append(malformedLog, SkippedLine(wire'.req[1]))
           ELSE malformedLog' = malformedLog
C18_FetchChangesOnlyLog == [][FetchStepFrame]_vars

\* in a later batch of a run, rows of an earlier batch already on disk, a request
\* of one DOI was answered 400 and the DOI logged
C18_Witness ==
    /\ pc \in { "fetch", "merge" }
    /\ wire.status = 400
    /\ Len(wire.req) = 1
    /\ Processed(outFile.rows[2])
    /\ Len(malformedLog) > fetchStats.logMark
    /\ HasCheckpoint
    /\ i > 0

----------------------------------------------------------------------------
(* The merge of one slice and the write that follows it, lines 277-321, on *)
(* its own: the process stands behind the fetch of any slice of a table    *)
(* whose rows have every shape csv.reader can deliver: no cell at all,     *)
(* the DOI cell only, the cells of the input, the cells of an earlier run  *)
(* up to the end of the span, and cells beyond the span.                   *)

OldRecord == [ k \in 1..Len(output_headers) |-> "old" ]
RowShapes ==
    { << >> } \cup
    UNION { { << cell >>, InputRow(cell), InputRow(cell) \o OldRecord,
              InputRow(cell) \o OldRecord \o << "z" >> } : cell \in { "10.1/Ab", "" } }

MergeInit ==
    /\ \E n \in 1..MaxRows : data_rows \in [1..n -> RowShapes]
    /\ header = PrepareHeader(InputHeader)
    /\ outFile = [exists |-> TRUE, rows |-> << header >> \o data_rows]
    /\ tmpFile = NoTable
    /\ dois = [ r \in 1..Len(data_rows) |-> ExtractDoi(data_rows[r]) ]
    /\ batch_size \in 1..MaxBatch
    /\ start_index \in 0..(Len(data_rows) - 1)
    /\ i \in { k \in 0..(Len(data_rows) - start_index - 1) : k % batch_size = 0 }
    /\ session_processed_count = i
    /\ progressFile = IF start_index + i > 0 THEN save_progress(input_file, start_index + i)
                      ELSE NoFile
    /\ malformedLog = << LogStartedLine >>
    /\ batch_slice = Slice(dois, start_index, i, batch_size)
    /\ metadata_items = Resolve(Present(batch_slice))
    /\ pc = "merge"
    /\ resume = FALSE
    /\ stack = << >>
    /\ wire = NoExchange
    /\ slept = 0
    /\ writeError = FALSE
    /\ fetchStats = NoStats
    /\ budget = [faults |-> 0, writeFails |-> 0, crashes |-> 0, restarts |-> 0]

MergeNext ==
    \/ MergeBatch
    \/ WriteOpen
    \/ WriteRows
    \/ ReplaceFile

MergeSpec == MergeInit /\ [][MergeNext]_vars

InSlice(r) == r > start_index + i /\ r <= start_index + i + Len(batch_slice)
InSpan(c) == c > output_start_index /\ c <= required_row_len

\* the cell of a row, '' where the row has none
CellOrEmpty(row, c) == IF c <= Len(row) THEN row[c] ELSE ""

\* the merge of the slice, as a step of the table in memory
MergeStepFrame ==
    /\ header' = header
    /\ Len(data_rows') = Len(data_rows)
    /\ \A r \in 1..Len(data_rows) :
          IF InSlice(r)
          THEN /\ Len(data_rows'[r]) = (IF Len(data_rows[r]) < required_row_len
                                        THEN required_row_len ELSE Len(data_rows[r]))
               /\ \A c \in 1..Len(data_rows'[r]) :
                     ~InSpan(c) => data_rows'[r][c] = CellOrEmpty(data_rows[r], c)
          ELSE data_rows'[r] = data_rows[r]

\* the replacement of the file on disk after the merge
ReplaceStepFrame ==
    /\ Len(outFile'.rows) = Len(outFile.rows)
    /\ \A r \in 1..Len(data_rows) :
          IF InSlice(r)
          THEN \A c \in 1..Len(outFile.rows[r + 1]) :
                  ~InSpan(c) => outFile'.rows[r + 1][c] = outFile.rows[r + 1][c]
          ELSE outFile'.rows[r + 1] = outFile.rows[r + 1]

(* C19: the merge of a slice keeps the number of data rows and every row   *)
(* outside the slice, rows below the starting offset included; a row of    *)
(* the slice is padded with empty cells when it ends before the span, and  *)
(* its cells outside the span keep their values; no other step of the loop *)
(* body changes the table in memory, and the file on disk changes in the   *)
(* same cells only.                                                        *)
C19_MergeTouchesOnlySpan ==
    [][ /\ (pc = "merge" /\ ProgramStep) => MergeStepFrame
        /\ (pc \in { "write_open", "write_rows", "replace" } /\ ProgramStep) =>
               UNCHANGED << header, data_rows >>
        /\ (pc = "replace" /\ pc' = "save_open" /\ ~writeError') => ReplaceStepFrame
      ]_vars

\* a slice that starts above offset 0 was merged: one of its rows had no cell and was
\* padded, another has a resolved record and keeps its cell beyond the span
C19_Witness ==
    /\ pc = "write_open"
    /\ start_index > 0
    /\ \E r \in 1..Len(data_rows) :
          /\ InSlice(r)
          /\ Len(data_rows[r]) = required_row_len + 1
          /\ data_rows[r][required_row_len + 1] = "z"
          /\ Span(data_rows[r])[1] = "10.1/aB"
    /\ \E r \in 1..Len(data_rows) :
          /\ InSlice(r)
          /\ data_rows[r] = [ c \in 1..required_row_len |-> "" ]

----------------------------------------------------------------------------
\* the activations that are running are on lists that shrink towards the top of the stack
StackShrinks ==
    \A n \in 1..Len(stack) :
        /\ stack[n].valid_dois # << >>
        /\ stack[n].attempt <= MaxRetries
        /\ n > 1 => /\ Len(stack[n].valid_dois) < Len(stack[n - 1].valid_dois)
                    /\ stack[n - 1].phase \in { "first", "second" }
                    /\ stack[n].valid_dois =
                          IF stack[n - 1].phase = "first"
                          THEN first_half(stack[n - 1].valid_dois)
                          ELSE second_half(stack[n - 1].valid_dois)

(* C20: whatever the service answers, a fetch of n DOIs comes to its end:  *)
(* every step of it lowers a natural-number measure and it is never stuck; *)
(* every recursive call is on a non-empty half, shorter than the list of   *)
(* its caller; no activation sends more than 3 requests; and the requests  *)
(* of the whole fetch number at most 3 * (2n - 1).                         *)
C20_FetchTerminates ==
    /\ [][FetchStep => (RankFalls /\ pc' \in { "fetch", "merge" })]_vars
    /\ [][(FetchStep /\ Sends) => Top(stack).attempt < MaxRetries]_vars
    /\ [](pc = "fetch" => (StackShrinks /\ ENABLED (FetchNext /\ ProgramStep)))
    /\ [](pc \in { "fetch", "merge" } =>
             fetchStats.calls <= MaxRetries * (2 * Len(Query) - 1))

\* the bound is met: a list of two malformed DOIs, each of the three activations
\* answered on its third request only
C20_Witness ==
    /\ pc = "merge"
    /\ Len(Query) > 1
    /\ fetchStats.calls = MaxRetries * (2 * Len(Query) - 1)
============================================================================
